---- MODULE Spec2Model ----
(***************************************************************************)
(* kafka-view: the replicated in-memory cache (src/src/cache.rs).          *)
(*                                                                         *)
(* A replica is one process: a Cache of five ReplicatedMaps sharing one    *)
(* ReplicaWriter, a ReplicaReader that bootstraps the maps from the        *)
(* replication topic, and threads that call insert.  The topic is a set    *)
(* of partitions, each a sequence of messages.                             *)
(***************************************************************************)
EXTENDS Integers, Sequences, FiniteSets, TLC

\* ------------------------------------------------------------------ bounds
NumReplicas == 2
NumPartitions == 2
NumKeys == 2
NumValues == 2
MaxWrites == 2
MaxHandles == 2
MaxQueue == 1
MaxLog == 3
MaxStreamErrors == 1
MaxCalls == 2
NumThreads == 3
MaxOps == 4
NumTopics == 2
MaxExtra == 1
MaxParts == 2
NumWorkers == 2
MaxWork == 3
NumSlots == 2

Replicas == 1..NumReplicas
Partitions == 1..NumPartitions
Keys == 1..NumKeys
Values == 1..NumValues
Handles == 1..MaxHandles

\* ------------------------------------------------------------------ names
\* The five maps of the aggregate, in declaration order.
CacheNames == <<"metrics", "offsets", "brokers", "topics", "groups">>

Fields == {CacheNames[i] : i \in 1..Len(CacheNames)}

\* Every string a WrappedKey can carry in the model: the five names and one
\* string that is none of them.
AllNames == CacheNames \o <<"unknown">>

TextCode(s) == CHOOSE i \in 1..Len(AllNames) : AllNames[i] = s

\* ------------------------------------------------------------------ codecs
\* Option<&[u8]>
None == [some |-> FALSE, bytes |-> <<>>]

Some(b) == [some |-> TRUE, bytes |-> b]

\* serde_cbor::to_vec of a user key or value: a one-element CBOR array.
Ser(x) == <<129, x>>

\* A decoder that keeps only the low bit of the integer.
DeLowBit(b) ==
    IF Len(b) = 2 /\ b[1] = 129 /\ b[2] \in 0..23
    THEN [ok |-> TRUE, val |-> b[2] % 2]
    ELSE [ok |-> FALSE, val |-> 0]

\* serde_cbor::from_slice of a user key or value.
De(b) ==
    IF Len(b) = 2 /\ b[1] = 129 /\ b[2] \in 0..23
    THEN [ok |-> TRUE, val |-> b[2]]
    ELSE [ok |-> FALSE, val |-> 0]

\* WrappedKey::new: the cache name and the serialized user key.
WrappedKey(cache_name, key) == [name |-> cache_name, key |-> Ser(key)]

\* An encoding that leaves the cache name out: every key is written under the
\* first name.
EncodeWrappedNameless(w) == <<130, 96 + 1, 128 + Len(w.key)>> \o w.key

\* serde_cbor::to_vec(&WrappedKey): array(2) [text, array(n) of u8].
EncodeWrapped(w) == <<130, 96 + TextCode(w.name), 128 + Len(w.key)>> \o w.key

\* parse_message_key: the message key, decoded to a WrappedKey.
parse_message_key(m) ==
    LET b == m.key.bytes IN
    IF ~m.key.some THEN [ok |-> FALSE, w |-> [name |-> "", key |-> <<>>]]
    ELSE IF /\ Len(b) >= 3
            /\ b[1] = 130
            /\ b[2] \in 97..(96 + Len(AllNames))
            /\ b[3] = 128 + (Len(b) - 3)
         THEN [ok |-> TRUE,
               w |-> [name |-> AllNames[b[2] - 96], key |-> SubSeq(b, 4, Len(b))]]
         ELSE [ok |-> FALSE, w |-> [name |-> "", key |-> <<>>]]

Message(key, payload) == [key |-> key, payload |-> payload]

\* The message write_update produces for (name, key, value).
UpdateMessage(name, key, value) ==
    Message(Some(EncodeWrapped(WrappedKey(name, key))), Some(Ser(value)))

RECURSIVE SumBytes(_)
SumBytes(b) == IF b = <<>> THEN 0 ELSE Head(b) + SumBytes(Tail(b))

\* The producer is given no partition: the partitioner hashes the key.
PartitionOf(keybytes) == (SumBytes(keybytes) % NumPartitions) + 1

\* ------------------------------------------------------------------ maps
\* HashMap<K, V>: a function on the keys present.
EmptyMap == [k \in {} |-> 0]

MapInsert(m, k, v) == [x \in (DOMAIN m) \cup {k} |-> IF x = k THEN v ELSE m[x]]

\* A cell is one Arc<RwLock<HashMap>>: the cell of field f allocated for handle h.
Cells == {<<f, h>> : f \in Fields, h \in Handles}

\* ------------------------------------------------------------------ state
VARIABLES
    log,        \* the topic: partition -> sequence of messages
    meta,       \* what fetch_metadata answers: "found", "missing", "error"
    queue,      \* replica -> messages the producer accepted and has not delivered
    refs,       \* replica -> Cache handles: handle -> field -> [name, map (a cell)]
    heap,       \* replica -> cell -> HashMap
    tpc,        \* replica -> position of its insert thread: "idle", "written"
    call,       \* replica -> arguments of the current or last insert
    ret,        \* replica -> result of the last insert: "none", "Ok", "Err"
    nwrites,    \* inserts started so far
    inserted,   \* replica -> the (field, key, value) its inserts applied locally
    own,        \* replica -> the log positions (partition, index) its producer wrote
    members,    \* replicas whose consumer has subscribed (one consumer group)
    owner,      \* partition -> the member the group coordinator assigned it to
    rpc,        \* replica -> reader position
    receiver,   \* replica -> the handle load_state was given
    pos,        \* replica -> partition -> messages consumed
    eofAt,      \* replica -> partition -> EOF already emitted at this position
    eof_set,    \* replica -> partitions that reported EOF
    state,      \* replica -> HashMap<WrappedKey, Message> of last_message_per_key
    delivered,  \* replica -> the updates handed to the receiver, in order
    lastRet,    \* replica -> result of the last Cache::receive_update
    errors,     \* replica -> error lines the reader logged
    rw,         \* the RwLock of one map: [readers, writer]
    lpc,        \* thread -> position in get or sync_value_update
    lval,       \* thread -> the value its sync_value_update stores
    slot,       \* the entry of one key in the HashMap, as two words
    got,        \* thread -> what its last get returned, as two words
    nops,       \* calls of get and sync_value_update started so far
    registry,   \* CONSUMERS holds a consumer for the requested cluster
    offsets,    \* the offsets of the request: <<topic, partition offsets>> entries
    qfail,      \* the (topic, partition) pairs whose watermark query fails
    fpc,        \* position of the request in group_offsets and fetch_watermarks
    futures,    \* the futures pushed so far: the (topic, partition) of each
    nstart,     \* tasks a pool worker has taken (in queue order)
    inflight,   \* watermark queries running on a pool worker
    ndone,      \* tasks whose query has settled
    wms,        \* what fetch_watermarks returned: [ok, map]
    response,   \* what group_offsets answered: [status, body]
    marks,      \* (topic, partition) -> the (low, high) a successful query returns
    rows,       \* the rows of the response's data
    lease,      \* map name -> the RwLock of that map: [readers, writer]
    mp,         \* map name -> the HashMap of that map
    tp,         \* worker thread -> position in its call
    tc,         \* worker thread -> its call: kind, maps, key, value, result
    pub,        \* the updates handed to the producer, in order: <<name, key, value>>
    ncalls,     \* calls of the worker threads started so far
    cin,        \* codec input: slot -> <<cache name, user key>>
    cenc,       \* slot -> the physical key encoded from the input
    cdec        \* slot -> what parse_message_key gave for the physical key

cacheVars == <<log, meta, queue, refs, heap, tpc, call, ret, nwrites, inserted, own,
               members, owner,
               rpc, receiver, pos, eofAt, eof_set, state, delivered, lastRet, errors>>

lockVars == <<rw, lpc, lval, slot, got, nops>>

fanVars == <<registry, offsets, qfail, marks, fpc, futures, nstart, inflight, ndone,
             wms, response, rows>>

leaseVars == <<lease, mp, tp, tc, pub, ncalls>>

codecVars == <<cin, cenc, cdec>>

vars == <<cacheVars, lockVars, fanVars, leaseVars, codecVars, leaseVars, codecVars>>

writerVars == <<queue, tpc, call, ret, nwrites, inserted, own>>

readerVars == <<members, owner, rpc, receiver, pos, eofAt, eof_set, state,
                delivered, lastRet, errors>>


\* ------------------------------------------------------------------ aggregate
\* Cache::new for handle h: five maps, each with its own cell.
CacheNew(h) == [f \in Fields |-> [name |-> f, map |-> <<f, h>>]]

\* An alias that gets a new, empty map of its own.
MapAliasDetached(m) == [name |-> m.name, map |-> <<m.name, 2>>]

\* ReplicatedMap::alias: the same name, the same Arc.
MapAlias(m) == [name |-> m.name, map |-> m.map]

\* Cache::alias
CacheAlias(cache) == [f \in Fields |-> MapAlias(cache[f])]

\* ReplicatedMap::get
MapGet(hp, m, k) ==
    IF k \in DOMAIN hp[m.map]
    THEN [some |-> TRUE, val |-> hp[m.map][k]]
    ELSE [some |-> FALSE, val |-> 0]

\* ReplicatedMap::keys
MapKeys(hp, m) == DOMAIN hp[m.map]

\* ReplicatedMap::sync_value_update: insert under the write lock.
sync_value_update(hp, m, key, value) ==
    [hp EXCEPT ![m.map] = MapInsert(@, key, value)]

\* ReplicaCacheUpdate
Set(key, payload) == [kind |-> "Set", key |-> key, payload |-> payload]

Delete(key) == [kind |-> "Delete", key |-> key, payload |-> <<>>]

\* A receive_update that carries out a Delete: the key is removed, Ok(()).
MapReceiveUpdateDeletes(hp, m, update) ==
    IF update.kind = "Set"
    THEN LET key == De(update.key)
             value == De(update.payload)
         IN IF ~key.ok THEN [heap |-> hp, ret |-> "Err"]
            ELSE IF ~value.ok THEN [heap |-> hp, ret |-> "Err"]
            ELSE [heap |-> sync_value_update(hp, m, key.val, value.val), ret |-> "Ok"]
    ELSE [heap |-> [hp EXCEPT ![m.map] =
                      [x \in (DOMAIN @) \ {De(update.key).val} |-> @[x]]],
          ret |-> "Ok"]

\* ReplicatedMap::receive_update: the heap afterwards and the Result.
MapReceiveUpdate(hp, m, update) ==
    IF update.kind = "Set"
    THEN LET key == De(update.key)
             value == De(update.payload)
         IN IF ~key.ok THEN [heap |-> hp, ret |-> "Err"]
            ELSE IF ~value.ok THEN [heap |-> hp, ret |-> "Err"]
            ELSE [heap |-> sync_value_update(hp, m, key.val, value.val), ret |-> "Ok"]
    ELSE [heap |-> hp, ret |-> "Err"]

\* A match whose "offsets" arm forwards to the metrics map.
CacheReceiveUpdateCrossed(hp, cache, cache_name, update) ==
    CASE cache_name = "metrics" ->
            [heap |-> MapReceiveUpdate(hp, cache.metrics, update).heap, ret |-> "Ok"]
      [] cache_name = "offsets" ->
            [heap |-> MapReceiveUpdate(hp, cache.metrics, update).heap, ret |-> "Ok"]
      [] cache_name = "brokers" ->
            [heap |-> MapReceiveUpdate(hp, cache.brokers, update).heap, ret |-> "Ok"]
      [] cache_name = "topics" ->
            [heap |-> MapReceiveUpdate(hp, cache.topics, update).heap, ret |-> "Ok"]
      [] cache_name = "groups" ->
            [heap |-> MapReceiveUpdate(hp, cache.groups, update).heap, ret |-> "Ok"]
      [] OTHER -> [heap |-> hp, ret |-> "Err"]

\* impl UpdateReceiver for Cache: the match on the name; the result of the
\* selected map is dropped and Ok(()) returned, an unknown name bails.
CacheReceiveUpdate(hp, cache, cache_name, update) ==
    CASE cache_name = "metrics" ->
            [heap |-> MapReceiveUpdate(hp, cache.metrics, update).heap, ret |-> "Ok"]
      [] cache_name = "offsets" ->
            [heap |-> MapReceiveUpdate(hp, cache.offsets, update).heap, ret |-> "Ok"]
      [] cache_name = "brokers" ->
            [heap |-> MapReceiveUpdate(hp, cache.brokers, update).heap, ret |-> "Ok"]
      [] cache_name = "topics" ->
            [heap |-> MapReceiveUpdate(hp, cache.topics, update).heap, ret |-> "Ok"]
      [] cache_name = "groups" ->
            [heap |-> MapReceiveUpdate(hp, cache.groups, update).heap, ret |-> "Ok"]
      [] OTHER -> [heap |-> hp, ret |-> "Err"]

\* ------------------------------------------------------------------ lock and request, at rest
\* The threads that call get and sync_value_update on one map.
Threads == 1..NumThreads

\* Option<V> of a two-word value: None.
NoValue == [some |-> FALSE, a |-> 0, b |-> 0]

\* RwLock::new(HashMap::new()): nobody holds the lock, the key is absent.
InitLock ==
    /\ rw = [readers |-> {}, writer |-> 0]
    /\ lpc = [t \in Threads |-> "idle"]
    /\ lval = [t \in Threads |-> 0]
    /\ slot = NoValue
    /\ got = [t \in Threads |-> NoValue]
    /\ nops = 0

\* No group_offsets request is being served.
InitNoRequest ==
    /\ registry = FALSE
    /\ offsets = <<>>
    /\ qfail = {}
    /\ fpc = "none"
    /\ futures = <<>>
    /\ nstart = 0
    /\ inflight = 0
    /\ ndone = 0
    /\ wms = [ok |-> FALSE, map |-> EmptyMap]
    /\ response = [status |-> 0, body |-> ""]
    /\ marks = EmptyMap
    /\ rows = <<>>

\* The threads of one process that work on the maps of the aggregate.
Workers == 1..NumWorkers

\* The two maps build_group_list reads.
MapNames == {"groups", "offsets"}

\* The call of a worker: its kind, the maps it still has to read (the first is
\* the current one), its key and value arguments, the iterator's position,
\* the entries the iterator has yielded, and what the call returned.
NoWork == [kind |-> "", maps |-> <<>>, k |-> 0, v |-> 0, cur |-> 0, seen |-> EmptyMap,
           result |-> {}, n |-> 0]

\* No worker thread has called anything; both maps are new.
InitNoWorkers ==
    /\ lease = [m \in MapNames |-> [readers |-> {}, writer |-> 0]]
    /\ mp = [m \in MapNames |-> EmptyMap]
    /\ tp = [t \in Workers |-> "idle"]
    /\ tc = [t \in Workers |-> NoWork]
    /\ pub = <<>>
    /\ ncalls = 0

\* Nothing has been encoded.
InitNoCodec ==
    /\ cin = EmptyMap
    /\ cenc = EmptyMap
    /\ cdec = EmptyMap

\* ------------------------------------------------------------------ initial state
NoCall == [h |-> 0, f |-> "", k |-> 0, v |-> 0]

InitProcess ==
    /\ queue = [r \in Replicas |-> <<>>]
    /\ refs = [r \in Replicas |-> [h \in {1} |-> CacheNew(h)]]
    /\ heap = [r \in Replicas |-> [c \in Cells |-> EmptyMap]]
    /\ tpc = [r \in Replicas |-> "idle"]
    /\ call = [r \in Replicas |-> NoCall]
    /\ ret = [r \in Replicas |-> "none"]
    /\ nwrites = 0
    /\ inserted = [r \in Replicas |-> {}]
    /\ own = [r \in Replicas |-> {}]
    /\ members = {}
    /\ owner = [p \in Partitions |-> 0]
    /\ rpc = [r \in Replicas |-> "init"]
    /\ receiver = [r \in Replicas |-> 0]
    /\ pos = [r \in Replicas |-> [p \in Partitions |-> 0]]
    /\ eofAt = [r \in Replicas |-> [p \in Partitions |-> FALSE]]
    /\ eof_set = [r \in Replicas |-> {}]
    /\ state = [r \in Replicas |-> EmptyMap]
    /\ delivered = [r \in Replicas |-> <<>>]
    /\ lastRet = [r \in Replicas |-> "none"]
    /\ errors = [r \in Replicas |-> 0]

\* The replicas start against an existing, empty topic.
Init ==
    /\ log = [p \in Partitions |-> <<>>]
    /\ meta = "found"
    /\ InitProcess
    /\ InitLock
    /\ InitNoRequest
    /\ InitNoWorkers
    /\ InitNoCodec

\* ------------------------------------------------------------------ handles
\* Alias as a deep copy: the new handle gets cells of its own, filled with the
\* current content of the aliased maps.
AliasCopies(r) ==
    /\ Cardinality(DOMAIN refs[r]) < MaxHandles
    /\ \E h \in DOMAIN refs[r] :
         LET n == Cardinality(DOMAIN refs[r]) + 1 IN
         /\ refs' = [refs EXCEPT ![r] =
                      [x \in (DOMAIN refs[r]) \cup {n} |->
                          IF x = n THEN CacheNew(n) ELSE refs[r][x]]]
         /\ heap' = [heap EXCEPT ![r] =
                      [c \in Cells |->
                          IF c[2] = n THEN heap[r][refs[r][h][c[1]].map] ELSE heap[r][c]]]
    /\ UNCHANGED <<log, meta, lockVars, fanVars, leaseVars, codecVars, writerVars, readerVars>>

\* Cache::alias on handle h of replica r.
Alias(r) ==
    /\ Cardinality(DOMAIN refs[r]) < MaxHandles
    /\ \E h \in DOMAIN refs[r] :
         LET n == Cardinality(DOMAIN refs[r]) + 1 IN
         refs' = [refs EXCEPT ![r] =
                    [x \in (DOMAIN refs[r]) \cup {n} |->
                        IF x = n THEN CacheAlias(refs[r][h]) ELSE refs[r][x]]]
    /\ UNCHANGED <<log, meta, lockVars, fanVars, leaseVars, codecVars, heap, writerVars, readerVars>>

\* ------------------------------------------------------------------ writer
InsertNames == {"metrics"}

\* ReplicatedMap::insert, first half: write_update serializes the key and the
\* value and hands the message to the producer.  It fails when the value does
\* not serialize or the producer rejects the message (its queue is full, or
\* any other immediate error); then insert returns the error.
\* An insert that applies locally before it publishes.
InsertAppliesThenFails(r, h, f, k, v) ==
    /\ tpc' = [tpc EXCEPT ![r] = "idle"]
    /\ ret' = [ret EXCEPT ![r] = "Err"]
    /\ call' = [call EXCEPT ![r] = [h |-> h, f |-> f, k |-> k, v |-> v]]
    /\ heap' = [heap EXCEPT ![r] = sync_value_update(@, refs[r][h][f], k, v)]
    /\ UNCHANGED <<queue, inserted, own>>

InsertFails(r, h, f, k, v) ==
    /\ tpc' = [tpc EXCEPT ![r] = "idle"]
    /\ ret' = [ret EXCEPT ![r] = "Err"]
    /\ call' = [call EXCEPT ![r] = [h |-> h, f |-> f, k |-> k, v |-> v]]
    /\ UNCHANGED <<queue, heap, inserted, own>>

InsertWrites(r, h, f, k, v) ==
    /\ Len(queue[r]) < MaxQueue
    /\ queue' = [queue EXCEPT ![r] = Append(@, UpdateMessage(refs[r][h][f].name, k, v))]
    /\ tpc' = [tpc EXCEPT ![r] = "written"]
    /\ ret' = [ret EXCEPT ![r] = "none"]
    /\ call' = [call EXCEPT ![r] = [h |-> h, f |-> f, k |-> k, v |-> v]]
    /\ UNCHANGED <<heap, inserted, own>>

InsertWrite(r) ==
    /\ tpc[r] = "idle"
    /\ nwrites < MaxWrites
    /\ nwrites' = nwrites + 1
    /\ \E h \in DOMAIN refs[r], f \in InsertNames, k \in Keys, v \in Values :
         \/ InsertWrites(r, h, f, k, v)
         \/ InsertFails(r, h, f, k, v)
    /\ UNCHANGED <<log, meta, lockVars, fanVars, leaseVars, codecVars, refs, readerVars>>

\* A user key whose Serialize implementation returns an error.
BadKey == 0

\* serde_cbor::to_vec(key) in WrappedKey::new, as a Result.
KeyToVec(k) ==
    IF k = BadKey THEN [ok |-> FALSE, bytes |-> <<>>] ELSE [ok |-> TRUE, bytes |-> Ser(k)]

\* ReplicatedMap::insert with a key that does not serialize: write_update
\* calls WrappedKey::new, whose unwrap() of the Err panics; the calling thread
\* unwinds out of insert, which returns nothing.
InsertUnwrapPanics(r) ==
    /\ tpc[r] = "idle"
    /\ nwrites < MaxWrites
    /\ nwrites' = nwrites + 1
    /\ \E h \in DOMAIN refs[r], f \in InsertNames, k \in {BadKey}, v \in Values :
         /\ ~KeyToVec(k).ok
         /\ call' = [call EXCEPT ![r] = [h |-> h, f |-> f, k |-> k, v |-> v]]
    /\ tpc' = [tpc EXCEPT ![r] = "panicked"]
    /\ UNCHANGED <<log, meta, lockVars, fanVars, leaseVars, codecVars, refs, heap, queue, ret, inserted, own,
                   readerVars>>

\* ReplicatedMap::insert, second half: sync_value_update, then Ok(()).
InsertSync(r) ==
    /\ tpc[r] = "written"
    /\ heap' = [heap EXCEPT ![r] =
                  sync_value_update(@, refs[r][call[r].h][call[r].f], call[r].k, call[r].v)]
    /\ tpc' = [tpc EXCEPT ![r] = "idle"]
    /\ ret' = [ret EXCEPT ![r] = "Ok"]
    /\ inserted' = [inserted EXCEPT ![r] = @ \cup {<<call[r].f, call[r].k, call[r].v>>}]
    /\ UNCHANGED <<log, meta, lockVars, fanVars, leaseVars, codecVars, refs, queue, call, nwrites, own, readerVars>>

\* The producer delivers its oldest message to the partition of its key.
Deliver(r) ==
    /\ queue[r] # <<>>
    /\ LET m == Head(queue[r])
           p == PartitionOf(m.key.bytes)
       IN /\ log' = [log EXCEPT ![p] = Append(@, m)]
          /\ own' = [own EXCEPT ![r] = @ \cup {<<p, Len(log[p]) + 1>>}]
    /\ queue' = [queue EXCEPT ![r] = Tail(@)]
    /\ UNCHANGED <<meta, lockVars, fanVars, leaseVars, codecVars, refs, heap, tpc, call, ret, nwrites, inserted, readerVars>>

\* Delivery fails after the producer accepted the message: it is lost.
DeliveryFails(r) ==
    /\ queue[r] # <<>>
    /\ queue' = [queue EXCEPT ![r] = Tail(@)]
    /\ UNCHANGED <<log, meta, lockVars, fanVars, leaseVars, codecVars, refs, heap, tpc, call, ret, nwrites, inserted, own, readerVars>>


\* write_update of a replica that is not modelled as a process, delivered: a
\* message for some key of some map arrives on the topic.
RemoteWrite ==
    /\ nwrites < MaxWrites
    /\ nwrites' = nwrites + 1
    /\ \E f \in InsertNames, k \in Keys, v \in Values :
         LET m == UpdateMessage(f, k, v)
             p == PartitionOf(m.key.bytes)
         IN log' = [log EXCEPT ![p] = Append(@, m)]
    /\ UNCHANGED <<meta, lockVars, fanVars, leaseVars, codecVars, refs, heap, queue, tpc, call, ret, inserted, own, readerVars>>

\* ------------------------------------------------------------------ reader
\* The assignments a group coordinator makes for the members ms: every
\* partition to one member, the members' shares differing by at most one.
Assignments(ms) ==
    {a \in [Partitions -> ms] :
        \A q1, q2 \in ms :
            Cardinality({p \in Partitions : a[p] = q1})
              <= Cardinality({p \in Partitions : a[p] = q2}) + 1}

\* ReplicaReader::new: a consumer of the fixed group "kafka_web_replica_reader"
\* subscribes to the topic.  The group rebalances; no offset is ever committed
\* (enable.auto.commit = false), so a member starts a partition it is newly
\* given from the earliest offset (auto.offset.reset = smallest).
ReaderNew(r) ==
    /\ rpc[r] = "init"
    /\ rpc' = [rpc EXCEPT ![r] = "subscribed"]
    /\ members' = members \cup {r}
    /\ owner' \in Assignments(members')
    /\ pos' = [q \in Replicas |-> [p \in Partitions |->
                 IF owner'[p] = q /\ owner[p] # q THEN 0 ELSE pos[q][p]]]
    /\ eofAt' = [q \in Replicas |-> [p \in Partitions |->
                 IF owner'[p] = q /\ owner[p] # q THEN FALSE ELSE eofAt[q][p]]]
    /\ UNCHANGED <<log, meta, lockVars, fanVars, leaseVars, codecVars, refs, heap, writerVars, receiver, eof_set, state,
                   delivered, lastRet, errors>>

\* A load_state that starts the stream whether or not the topic is in the
\* metadata.
LoadStateStartStreams(r) ==
    /\ rpc[r] = "subscribed"
    /\ \E h \in DOMAIN refs[r] : receiver' = [receiver EXCEPT ![r] = h]
    /\ rpc' = [rpc EXCEPT ![r] = IF meta = "error" THEN "done" ELSE "reading"]
    /\ errors' = [errors EXCEPT ![r] = IF meta = "error" THEN @ + 1 ELSE @]
    /\ UNCHANGED <<log, meta, lockVars, fanVars, leaseVars, codecVars, refs, heap, writerVars, members, owner,
                   pos, eofAt, eof_set, state, delivered, lastRet>>

\* load_state up to the stream: last_message_per_key fetches the metadata.
\* A failed fetch is logged by load_state, which then returns; a missing topic
\* gives the empty state; otherwise the stream starts.
LoadStateStart(r) ==
    /\ rpc[r] = "subscribed"
    /\ \E h \in DOMAIN refs[r] : receiver' = [receiver EXCEPT ![r] = h]
    /\ rpc' = [rpc EXCEPT ![r] =
                 CASE meta = "error" -> "done"
                   [] meta = "missing" -> "dispatch"
                   [] OTHER -> "reading"]
    /\ errors' = [errors EXCEPT ![r] = IF meta = "error" THEN @ + 1 ELSE @]
    /\ UNCHANGED <<log, meta, lockVars, fanVars, leaseVars, codecVars, refs, heap, writerVars, members, owner, pos, eofAt,
                   eof_set, state, delivered, lastRet>>

\* An exit test that is satisfied by the first EOF.
AnyEof(eofs) == eofs # {}

\* The loop's exit test: every partition of the metadata is in the EOF set.
AllEof(eofs) == Cardinality(eofs) = Cardinality(Partitions)

\* A reader that keeps the first message of a key instead of the last.
ReadMessageKeepsFirst(r, p) ==
    /\ rpc[r] = "reading"
    /\ owner[p] = r
    /\ pos[r][p] < Len(log[p])
    /\ LET m == log[p][pos[r][p] + 1]
           parsed == parse_message_key(m)
       IN /\ state' = [state EXCEPT ![r] =
                         IF parsed.ok /\ parsed.w \notin DOMAIN @
                         THEN MapInsert(@, parsed.w, m) ELSE @]
          /\ errors' = [errors EXCEPT ![r] = IF parsed.ok THEN @ ELSE @ + 1]
    /\ pos' = [pos EXCEPT ![r][p] = @ + 1]
    /\ eofAt' = [eofAt EXCEPT ![r][p] = FALSE]
    /\ rpc' = [rpc EXCEPT ![r] = IF AllEof(eof_set[r]) THEN "dispatch" ELSE "reading"]
    /\ UNCHANGED <<log, meta, lockVars, fanVars, leaseVars, codecVars, refs, heap, writerVars, members, owner, receiver,
                   eof_set, delivered, lastRet>>

\* A reader that gives up at the first message whose key does not parse.
ReadMessageAborts(r, p) ==
    /\ rpc[r] = "reading"
    /\ owner[p] = r
    /\ pos[r][p] < Len(log[p])
    /\ LET m == log[p][pos[r][p] + 1]
           parsed == parse_message_key(m)
       IN /\ state' = [state EXCEPT ![r] =
                         IF parsed.ok THEN MapInsert(@, parsed.w, m) ELSE @]
          /\ errors' = [errors EXCEPT ![r] = IF parsed.ok THEN @ ELSE @ + 1]
          /\ rpc' = [rpc EXCEPT ![r] =
                       IF ~parsed.ok THEN "done"
                       ELSE IF AllEof(eof_set[r]) THEN "dispatch" ELSE "reading"]
    /\ pos' = [pos EXCEPT ![r][p] = @ + 1]
    /\ eofAt' = [eofAt EXCEPT ![r][p] = FALSE]
    /\ UNCHANGED <<log, meta, lockVars, fanVars, leaseVars, codecVars, refs, heap, writerVars, members, owner, receiver,
                   eof_set, delivered, lastRet>>

\* One message of the stream, Ok(Ok(m)): kept under its wrapped key when the
\* key parses, logged otherwise.
ReadMessage(r, p) ==
    /\ rpc[r] = "reading"
    /\ owner[p] = r
    /\ pos[r][p] < Len(log[p])
    /\ LET m == log[p][pos[r][p] + 1]
           parsed == parse_message_key(m)
       IN /\ state' = [state EXCEPT ![r] =
                         IF parsed.ok THEN MapInsert(@, parsed.w, m) ELSE @]
          /\ errors' = [errors EXCEPT ![r] = IF parsed.ok THEN @ ELSE @ + 1]
    /\ pos' = [pos EXCEPT ![r][p] = @ + 1]
    /\ eofAt' = [eofAt EXCEPT ![r][p] = FALSE]
    /\ rpc' = [rpc EXCEPT ![r] = IF AllEof(eof_set[r]) THEN "dispatch" ELSE "reading"]
    /\ UNCHANGED <<log, meta, lockVars, fanVars, leaseVars, codecVars, refs, heap, writerVars, members, owner, receiver,
                   eof_set, delivered, lastRet>>

\* Ok(Err(PartitionEOF(p))): the consumer reached the end of partition p.
ReadEof(r, p) ==
    /\ rpc[r] = "reading"
    /\ owner[p] = r
    /\ pos[r][p] = Len(log[p])
    /\ ~eofAt[r][p]
    /\ eofAt' = [eofAt EXCEPT ![r][p] = TRUE]
    /\ eof_set' = [eof_set EXCEPT ![r] = @ \cup {p}]
    /\ rpc' = [rpc EXCEPT ![r] = IF AllEof(eof_set'[r]) THEN "dispatch" ELSE "reading"]
    /\ UNCHANGED <<log, meta, lockVars, fanVars, leaseVars, codecVars, refs, heap, writerVars, members, owner, receiver,
                   pos, state, delivered, lastRet, errors>>

\* Any other item of the stream, Ok(Err(e)) or Err(_): logged.
StreamError(r) ==
    /\ rpc[r] = "reading"
    /\ errors[r] < MaxStreamErrors
    /\ errors' = [errors EXCEPT ![r] = @ + 1]
    /\ rpc' = [rpc EXCEPT ![r] = IF AllEof(eof_set[r]) THEN "dispatch" ELSE "reading"]
    /\ UNCHANGED <<log, meta, lockVars, fanVars, leaseVars, codecVars, refs, heap, writerVars, members, owner, receiver,
                   pos, eofAt, eof_set, state, delivered, lastRet>>

\* The update load_state builds from a kept message.
UpdateOf(w, m) == IF m.payload.some THEN Set(w.key, m.payload.bytes) ELSE Delete(w.key)

\* The removal of key w from a HashMap.
MapRemove(m, w) == [x \in (DOMAIN m) \ {w} |-> m[x]]

\* load_state, one turn of its for loop over the state (a HashMap: any order):
\* the update goes to the receiver, an error it returns is logged.
Dispatch(r) ==
    /\ rpc[r] = "dispatch"
    /\ \E w \in DOMAIN state[r] :
         LET update == UpdateOf(w, state[r][w])
             res == CacheReceiveUpdate(heap[r], refs[r][receiver[r]], w.name, update)
         IN /\ heap' = [heap EXCEPT ![r] = res.heap]
            /\ lastRet' = [lastRet EXCEPT ![r] = res.ret]
            /\ errors' = [errors EXCEPT ![r] = IF res.ret = "Err" THEN @ + 1 ELSE @]
            /\ delivered' = [delivered EXCEPT ![r] = Append(@, <<w.name, update>>)]
            /\ state' = [state EXCEPT ![r] = MapRemove(@, w)]
    /\ UNCHANGED <<log, meta, lockVars, fanVars, leaseVars, codecVars, refs, writerVars, members, owner, rpc, receiver,
                   pos, eofAt, eof_set>>

\* load_state returns Ok(()) when the state is used up.
LoadStateReturn(r) ==
    /\ rpc[r] = "dispatch"
    /\ DOMAIN state[r] = {}
    /\ rpc' = [rpc EXCEPT ![r] = "done"]
    /\ UNCHANGED <<log, meta, lockVars, fanVars, leaseVars, codecVars, refs, heap, writerVars, members, owner, receiver,
                   pos, eofAt, eof_set, state, delivered, lastRet, errors>>

\* ------------------------------------------------------------------ receiver calls
\* The updates a caller can hand to the receiver: Set with a key and a payload
\* that decode, Set with a key or a payload that does not, Delete.
Updates ==
    {Set(Ser(k), Ser(v)) : k \in Keys, v \in Values}
      \cup {Set(<<255>>, Ser(1)), Set(Ser(1), <<255>>), Delete(Ser(1))}

\* UpdateReceiver::receive_update called on handle h of replica r's aggregate.
ReceiveUpdate(r) ==
    /\ Len(delivered[r]) < MaxCalls
    /\ \E h \in DOMAIN refs[r], n \in Fields \cup {"unknown"}, update \in Updates :
         LET res == CacheReceiveUpdate(heap[r], refs[r][h], n, update)
         IN /\ heap' = [heap EXCEPT ![r] = res.heap]
            /\ lastRet' = [lastRet EXCEPT ![r] = res.ret]
            /\ delivered' = [delivered EXCEPT ![r] = Append(@, <<n, update>>)]
            /\ receiver' = [receiver EXCEPT ![r] = h]
    /\ UNCHANGED <<log, meta, lockVars, fanVars, leaseVars, codecVars, refs, writerVars, members, owner, rpc, pos, eofAt,
                   eof_set, state, errors>>

\* ------------------------------------------------------------------ the lock of a map
\* One key of one ReplicatedMap, its value stored as two words, and threads
\* that call get and sync_value_update (insert's second half and the reader's
\* receive_update both end there).

\* A read() that does not wait for the writer.
GetLockUnguarded(t) ==
    /\ lpc[t] = "r_wait"
    /\ rw' = [rw EXCEPT !.readers = @ \cup {t}]
    /\ lpc' = [lpc EXCEPT ![t] = "r_get"]
    /\ UNCHANGED <<cacheVars, fanVars, leaseVars, codecVars, lval, slot, got, nops>>

\* get is called.
GetCall(t) ==
    /\ lpc[t] = "idle"
    /\ nops < MaxOps
    /\ nops' = nops + 1
    /\ lpc' = [lpc EXCEPT ![t] = "r_wait"]
    /\ got' = [got EXCEPT ![t] = NoValue]
    /\ UNCHANGED <<cacheVars, fanVars, leaseVars, codecVars, rw, lval, slot>>

\* self.map.read(): granted while no writer holds the lock.
GetLock(t) ==
    /\ lpc[t] = "r_wait"
    /\ rw.writer = 0
    /\ rw' = [rw EXCEPT !.readers = @ \cup {t}]
    /\ lpc' = [lpc EXCEPT ![t] = "r_get"]
    /\ UNCHANGED <<cacheVars, fanVars, leaseVars, codecVars, lval, slot, got, nops>>

\* (*cache).get(key): None drops the guard and returns; Some starts the clone
\* with the first word.
GetClone(t) ==
    /\ lpc[t] = "r_get"
    /\ IF slot.some
       THEN /\ got' = [got EXCEPT ![t] = [some |-> TRUE, a |-> slot.a, b |-> 0]]
            /\ lpc' = [lpc EXCEPT ![t] = "r_clone"]
            /\ rw' = rw
       ELSE /\ got' = [got EXCEPT ![t] = NoValue]
            /\ lpc' = [lpc EXCEPT ![t] = "idle"]
            /\ rw' = [rw EXCEPT !.readers = @ \ {t}]
    /\ UNCHANGED <<cacheVars, fanVars, leaseVars, codecVars, lval, slot, nops>>

\* The clone's second word; the guard is dropped and get returns Some.
GetReturn(t) ==
    /\ lpc[t] = "r_clone"
    /\ got' = [got EXCEPT ![t].b = slot.b]
    /\ rw' = [rw EXCEPT !.readers = @ \ {t}]
    /\ lpc' = [lpc EXCEPT ![t] = "idle"]
    /\ UNCHANGED <<cacheVars, fanVars, leaseVars, codecVars, lval, slot, nops>>

\* sync_value_update is called with a value.
SyncCall(t) ==
    /\ lpc[t] = "idle"
    /\ nops < MaxOps
    /\ nops' = nops + 1
    /\ \E v \in Values : lval' = [lval EXCEPT ![t] = v]
    /\ lpc' = [lpc EXCEPT ![t] = "w_wait"]
    /\ UNCHANGED <<cacheVars, fanVars, leaseVars, codecVars, rw, slot, got>>

\* self.map.write(): granted while nobody holds the lock.
SyncLock(t) ==
    /\ lpc[t] = "w_wait"
    /\ rw.writer = 0
    /\ rw.readers = {}
    /\ rw' = [rw EXCEPT !.writer = t]
    /\ lpc' = [lpc EXCEPT ![t] = "w_insert"]
    /\ UNCHANGED <<cacheVars, fanVars, leaseVars, codecVars, lval, slot, got, nops>>

\* (*cache).insert(key, value): the first word of the value is stored.
SyncInsert(t) ==
    /\ lpc[t] = "w_insert"
    /\ slot' = [some |-> TRUE, a |-> lval[t], b |-> slot.b]
    /\ lpc' = [lpc EXCEPT ![t] = "w_rest"]
    /\ UNCHANGED <<cacheVars, fanVars, leaseVars, codecVars, rw, lval, got, nops>>

\* The second word is stored and the guard dropped.
SyncUnlock(t) ==
    /\ lpc[t] = "w_rest"
    /\ slot' = [slot EXCEPT !.b = lval[t]]
    /\ rw' = [rw EXCEPT !.writer = 0]
    /\ lpc' = [lpc EXCEPT ![t] = "idle"]
    /\ UNCHANGED <<cacheVars, fanVars, leaseVars, codecVars, lval, got, nops>>

\* ------------------------------------------------------------------ workers on the maps
\* The map a worker's call is on.
MapOf(t) == Head(tc[t].maps)

\* The closure a worker hands to count and filter_clone*: the key it asks for.
Matches(t, k) == k = tc[t].k

\* What the closure of the call makes of the entries the iterator yielded.
\* keys: every key; count: the number of matching keys; filter_clone: the
\* matching (key, value) pairs; build_group_list: the matching keys of the
\* groups map, then those of the offsets map added to them.
IterResult(t, entries) ==
    LET hit == {k \in DOMAIN entries : Matches(t, k)} IN
    CASE tc[t].kind = "keys" -> [result |-> DOMAIN entries, n |-> 0]
      [] tc[t].kind = "count" -> [result |-> {}, n |-> Cardinality(hit)]
      [] tc[t].kind = "filter_clone" ->
            [result |-> {<<k, entries[k]>> : k \in hit}, n |-> 0]
      [] OTHER -> [result |-> tc[t].result \cup hit, n |-> 0]

\* A thread calls insert(key, value) on a map: it enters write_update.
WorkerInsertCall(t) ==
    /\ tp[t] = "idle"
    /\ ncalls < MaxWork
    /\ \E m \in MapNames, k \in Keys, v \in Values :
        tc' = [tc EXCEPT ![t] = [NoWork EXCEPT !.kind = "insert", !.maps = <<m>>,
                                               !.k = k, !.v = v]]
    /\ tp' = [tp EXCEPT ![t] = "publish"]
    /\ ncalls' = ncalls + 1
    /\ UNCHANGED <<cacheVars, lockVars, fanVars, codecVars, lease, mp, pub>>

\* write_update returns: the record is with the producer.  insert goes on to
\* sync_value_update.
WorkerPublish(t) ==
    /\ tp[t] = "publish"
    /\ pub' = Append(pub, <<MapOf(t), tc[t].k, tc[t].v>>)
    /\ tp' = [tp EXCEPT ![t] = "w_wait"]
    /\ UNCHANGED <<cacheVars, lockVars, fanVars, codecVars, lease, mp, tc, ncalls>>

\* The reader thread's receive_update of a Set on a map: sync_value_update.
WorkerReceiveCall(t) ==
    /\ tp[t] = "idle"
    /\ ncalls < MaxWork
    /\ \E m \in MapNames, k \in Keys, v \in Values :
        tc' = [tc EXCEPT ![t] = [NoWork EXCEPT !.kind = "receive_update",
                                               !.maps = <<m>>, !.k = k, !.v = v]]
    /\ tp' = [tp EXCEPT ![t] = "w_wait"]
    /\ ncalls' = ncalls + 1
    /\ UNCHANGED <<cacheVars, lockVars, fanVars, codecVars, lease, mp, pub>>

\* self.map.write() of sync_value_update: no reader and no writer holds the
\* lock of the map.
WorkerWriteLock(t) ==
    /\ tp[t] = "w_wait"
    /\ lease[MapOf(t)].writer = 0
    /\ lease[MapOf(t)].readers = {}
    /\ lease' = [lease EXCEPT ![MapOf(t)].writer = t]
    /\ tp' = [tp EXCEPT ![t] = "w_locked"]
    /\ UNCHANGED <<cacheVars, lockVars, fanVars, codecVars, mp, tc, pub, ncalls>>

\* (*cache).insert(key, value); the guard is dropped and the call returns.
WorkerAssign(t) ==
    /\ tp[t] = "w_locked"
    /\ mp' = [mp EXCEPT ![MapOf(t)] = MapInsert(@, tc[t].k, tc[t].v)]
    /\ lease' = [lease EXCEPT ![MapOf(t)].writer = 0]
    /\ tp' = [tp EXCEPT ![t] = "idle"]
    /\ UNCHANGED <<cacheVars, lockVars, fanVars, codecVars, tc, pub, ncalls>>

\* A thread calls keys, count or filter_clone on a map, or build_group_list,
\* which reads the groups map and then the offsets map.
WorkerIterCall(t) ==
    /\ tp[t] = "idle"
    /\ ncalls < MaxWork
    /\ \/ \E kind \in {"keys", "count", "filter_clone"}, m \in MapNames, k \in Keys :
            tc' = [tc EXCEPT ![t] = [NoWork EXCEPT !.kind = kind, !.maps = <<m>>,
                                                   !.k = k]]
       \/ \E k \in Keys :
            tc' = [tc EXCEPT ![t] = [NoWork EXCEPT !.kind = "build_group_list",
                                                   !.maps = <<"groups", "offsets">>,
                                                   !.k = k]]
    /\ tp' = [tp EXCEPT ![t] = "r_wait"]
    /\ ncalls' = ncalls + 1
    /\ UNCHANGED <<cacheVars, lockVars, fanVars, codecVars, lease, mp, pub>>

\* A read lock that is granted while a writer holds the lock.
WorkerReadLockUnguarded(t) ==
    /\ tp[t] = "r_wait"
    /\ lease' = [lease EXCEPT ![MapOf(t)].readers = @ \cup {t}]
    /\ tc' = [tc EXCEPT ![t].cur = 1, ![t].seen = EmptyMap]
    /\ tp' = [tp EXCEPT ![t] = "r_iter"]
    /\ UNCHANGED <<cacheVars, lockVars, fanVars, codecVars, mp, pub, ncalls>>

\* self.map.read(): no writer holds the lock of the map; the iterator starts.
WorkerReadLock(t) ==
    /\ tp[t] = "r_wait"
    /\ lease[MapOf(t)].writer = 0
    /\ lease' = [lease EXCEPT ![MapOf(t)].readers = @ \cup {t}]
    /\ tc' = [tc EXCEPT ![t].cur = 1, ![t].seen = EmptyMap]
    /\ tp' = [tp EXCEPT ![t] = "r_iter"]
    /\ UNCHANGED <<cacheVars, lockVars, fanVars, codecVars, mp, pub, ncalls>>

\* The iterator yields the next entry of the map, if the key is present.
WorkerIterNext(t) ==
    /\ tp[t] = "r_iter"
    /\ tc[t].cur <= NumKeys
    /\ tc' = [tc EXCEPT ![t].cur = @ + 1,
                        ![t].seen = IF tc[t].cur \in DOMAIN mp[MapOf(t)]
                                    THEN MapInsert(@, tc[t].cur, mp[MapOf(t)][tc[t].cur])
                                    ELSE @]
    /\ UNCHANGED <<cacheVars, lockVars, fanVars, codecVars, lease, mp, tp, pub, ncalls>>

\* A build_group_list that still holds the read lock of the groups map when
\* it asks for the lock of the offsets map.
WorkerIterEndKeepsLease(t) ==
    /\ tp[t] = "r_iter"
    /\ tc[t].cur > NumKeys
    /\ lease' = IF Len(tc[t].maps) > 1 THEN lease
                 ELSE [m \in MapNames |-> [lease[m] EXCEPT !.readers = @ \ {t}]]
    /\ tc' = [tc EXCEPT ![t] = [@ EXCEPT !.result = IterResult(t, tc[t].seen).result,
                                          !.n = IterResult(t, tc[t].seen).n,
                                          !.maps = IF Len(@) > 1 THEN Tail(@) ELSE @]]
    /\ tp' = [tp EXCEPT ![t] = IF Len(tc[t].maps) > 1 THEN "r_wait" ELSE "idle"]
    /\ UNCHANGED <<cacheVars, lockVars, fanVars, codecVars, mp, pub, ncalls>>

\* The iterator is exhausted: the closure's result is returned and the read
\* guard is dropped when lock_iter (or keys) returns.  build_group_list then
\* goes on to the offsets map; every other call returns.
WorkerIterEnd(t) ==
    /\ tp[t] = "r_iter"
    /\ tc[t].cur > NumKeys
    /\ lease' = [lease EXCEPT ![MapOf(t)].readers = @ \ {t}]
    /\ tc' = [tc EXCEPT ![t] = [@ EXCEPT !.result = IterResult(t, tc[t].seen).result,
                                          !.n = IterResult(t, tc[t].seen).n,
                                          !.maps = IF Len(@) > 1 THEN Tail(@) ELSE @]]
    /\ tp' = [tp EXCEPT ![t] = IF Len(tc[t].maps) > 1 THEN "r_wait" ELSE "idle"]
    /\ UNCHANGED <<cacheVars, lockVars, fanVars, codecVars, mp, pub, ncalls>>

\* ------------------------------------------------------------------ wrapped key codec
Slots == 1..NumSlots

\* WrappedKey::new(cache_name, key) and serde_cbor::to_vec of it, for the
\* input of a slot.
CodecEncode(i) ==
    /\ i \in Slots \ DOMAIN cenc
    /\ cenc' = MapInsert(cenc, i, EncodeWrapped(WrappedKey(cin[i][1], cin[i][2])))
    /\ UNCHANGED <<cacheVars, lockVars, fanVars, leaseVars, cin, cdec>>

\* parse_message_key of a message that carries the physical key of a slot.
CodecDecode(i) ==
    /\ i \in DOMAIN cenc \ DOMAIN cdec
    /\ cdec' = MapInsert(cdec, i, parse_message_key(Message(Some(cenc[i]), None)))
    /\ UNCHANGED <<cacheVars, lockVars, fanVars, leaseVars, cin, cenc>>

\* ------------------------------------------------------------------ watermark fanout
\* Builder::new().pool_size(32)
PoolSize == 32

Topics == 1..NumTopics

\* The lengths of an entry's partition offsets: none, one, more than the pool
\* for the first topic of the listing; one for the others.
PartitionCounts(t) == IF t = 1 THEN {0, 1, PoolSize + MaxExtra} ELSE {1}

\* The entries of the topics t, t+1, ... that choice c includes (a negative
\* count leaves the topic out), in the order of the cache listing.
RECURSIVE EntriesFrom(_, _)
EntriesFrom(c, t) ==
    IF t > NumTopics THEN <<>>
    ELSE (IF c[t] < 0 THEN <<>> ELSE << <<t, [i \in 1..c[t] |-> 0]>> >>)
           \o EntriesFrom(c, t + 1)

\* What offsets_by_cluster_group can hand over: one entry per topic of the
\* group.
OffsetsInputs ==
    {EntriesFrom(c, 1) :
        c \in {d \in [Topics -> {-1, 0, 1, PoolSize + MaxExtra}] :
                  \A t \in Topics : d[t] \in PartitionCounts(t) \cup {-1}}}

\* The pairs whose query may fail: the first partition of the last topic.
FailCandidates == {<<NumTopics, 0>>}

\* The loop nest of fetch_watermarks: every (topic, partition_id) in order,
\* partition_id in 0..partitions.len().
RECURSIVE AllPairs(_)
AllPairs(offs) ==
    IF offs = <<>> THEN <<>>
    ELSE [i \in 1..Len(Head(offs)[2]) |-> <<Head(offs)[1], i - 1>>] \o AllPairs(Tail(offs))

\* consumer.fetch_watermarks(topic, partition_id, 10000)
QueryResult(pair) ==
    IF pair \in qfail THEN [ok |-> FALSE, low |-> 0, high |-> 0]
    ELSE IF pair \in DOMAIN marks
         THEN [ok |-> TRUE, low |-> marks[pair][1], high |-> marks[pair][2]]
         ELSE [ok |-> TRUE, low |-> 0, high |-> 1]

\* into_iter().collect::<HashMap<_, _>>() of the tasks' results: one entry
\* per distinct (topic, partition) of the tasks, with the result of its query.
CollectMap(fs) == [pair \in {fs[i] : i \in 1..Len(fs)} |-> QueryResult(pair)]

\* The text of the last column, printing the distance of the offset from the
\* low watermark.
lag_shownFromLow(high, offset, low, lag) ==
    IF high = 0 THEN "Empty topic"
    ELSE IF offset - low < 0 THEN "Out of retention"
    ELSE ToString(offset - low)

\* let lag_shown = match (high, offset - low) { .. }: the arms in order; the
\* last arm prints the lag computed from the watermarks (or -1).
lag_shown(high, offset, low, lag) ==
    IF high = 0 THEN "Empty topic"
    ELSE IF offset - low < 0 THEN "Out of retention"
    ELSE ToString(lag)

\* The body of the inner loop of group_offsets: the watermarks of the
\* partition, or -1 everywhere when its query failed or is missing.
Row(topic, partition_id, offset, w) ==
    LET key == <<topic, partition_id>>
        found == key \in DOMAIN w /\ w[key].ok
        low == IF found THEN w[key].low ELSE -1
        high == IF found THEN w[key].high ELSE -1
        lag == IF found THEN w[key].high - offset ELSE -1
    IN  <<topic, partition_id, low, high, offset, lag_shown(high, offset, low, lag)>>

\* result_data: the rows of every entry, partitions in order.
RECURSIVE result_data(_, _)
result_data(offs, w) ==
    IF offs = <<>> THEN <<>>
    ELSE [i \in 1..Len(Head(offs)[2]) |->
              Row(Head(offs)[1], i - 1, Head(offs)[2][i], w)]
           \o result_data(Tail(offs), w)

\* A pool that hands a task to a worker whenever one is queued.
StartQueryUnbounded ==
    /\ nstart < Len(futures)
    /\ nstart' = nstart + 1
    /\ inflight' = inflight + 1
    /\ UNCHANGED <<cacheVars, lockVars, leaseVars, codecVars, registry, offsets, qfail,
                   marks, fpc, futures,
                   ndone, wms, response, rows>>

\* A join that does not wait for the tasks.
JoinAllEarly ==
    /\ fpc = "join"
    /\ wms' = [ok |-> TRUE, map |-> CollectMap(SubSeq(futures, 1, ndone))]
    /\ fpc' = "returned"
    /\ UNCHANGED <<cacheVars, lockVars, leaseVars, codecVars, registry, offsets, qfail,
                   marks, futures, nstart,
                   inflight, ndone, response, rows>>

\* A handler that answers a failed fanout with an error.
GroupOffsetsRespondError ==
    /\ fpc \in {"failed", "returned"}
    /\ response' = IF wms.ok THEN [status |-> 200, body |-> "data"]
                   ELSE [status |-> 500, body |-> "error"]
    /\ rows' = IF wms.ok THEN result_data(offsets, wms.map) ELSE <<>>
    /\ fpc' = "responded"
    /\ UNCHANGED <<cacheVars, lockVars, leaseVars, codecVars, registry, offsets, qfail,
                   marks, futures, nstart,
                   inflight, ndone, wms>>

\* A worker that is not given back to the pool when its query settles.
SettleQueryKeepsWorker ==
    /\ inflight > ndone
    /\ ndone' = ndone + 1
    /\ UNCHANGED <<cacheVars, lockVars, leaseVars, codecVars, registry, offsets, qfail,
                   marks, fpc, futures,
                   nstart, inflight, wms, response, rows>>

\* fetch_watermarks, the registry lookup: no consumer for the cluster bails;
\* otherwise the pool is created and the loops start.
FetchWatermarksCall ==
    /\ fpc = "call"
    /\ IF ~registry
       THEN /\ fpc' = "failed"
            /\ wms' = [ok |-> FALSE, map |-> EmptyMap]
       ELSE /\ fpc' = IF AllPairs(offsets) = <<>> THEN "join" ELSE "submit"
            /\ wms' = wms
    /\ UNCHANGED <<cacheVars, lockVars, leaseVars, codecVars, registry, offsets, qfail,
                   marks, futures, nstart,
                   inflight, ndone, response, rows>>

\* One turn of the inner loop: cpu_pool.spawn_fn, futures.push.
Spawn ==
    /\ fpc = "submit"
    /\ futures' = Append(futures, AllPairs(offsets)[Len(futures) + 1])
    /\ fpc' = IF Len(futures') = Len(AllPairs(offsets)) THEN "join" ELSE "submit"
    /\ UNCHANGED <<cacheVars, lockVars, leaseVars, codecVars, registry, offsets, qfail,
                   marks, nstart, inflight,
                   ndone, wms, response, rows>>

\* A free worker of the pool takes the next queued task and starts its query.
StartQuery ==
    /\ nstart < Len(futures)
    /\ inflight < PoolSize
    /\ nstart' = nstart + 1
    /\ inflight' = inflight + 1
    /\ UNCHANGED <<cacheVars, lockVars, leaseVars, codecVars, registry, offsets, qfail,
                   marks, fpc, futures,
                   ndone, wms, response, rows>>

\* A query settles, with watermarks or with an error (at the latest after its
\* 10 s timeout); the task completes with Ok(((topic, partition), wms)) and
\* its worker is free again.
SettleQuery ==
    /\ inflight > 0
    /\ inflight' = inflight - 1
    /\ ndone' = ndone + 1
    /\ UNCHANGED <<cacheVars, lockVars, leaseVars, codecVars, registry, offsets, qfail,
                   marks, fpc, futures,
                   nstart, wms, response, rows>>

\* future::join_all(futures).wait(): every task has completed; the results
\* are collected and returned.
JoinAll ==
    /\ fpc = "join"
    /\ ndone = Len(futures)
    /\ wms' = [ok |-> TRUE, map |-> CollectMap(futures)]
    /\ fpc' = "returned"
    /\ UNCHANGED <<cacheVars, lockVars, leaseVars, codecVars, registry, offsets, qfail,
                   marks, futures, nstart,
                   inflight, ndone, response, rows>>

\* group_offsets after fetch_watermarks: an error is logged and answered with
\* the empty JSON object, a mapping with the rows; both are Ok responses.
GroupOffsetsRespond ==
    /\ fpc \in {"failed", "returned"}
    /\ response' = IF wms.ok THEN [status |-> 200, body |-> "data"]
                   ELSE [status |-> 200, body |-> "{}"]
    /\ rows' = IF wms.ok THEN result_data(offsets, wms.map) ELSE <<>>
    /\ fpc' = "responded"
    /\ UNCHANGED <<cacheVars, lockVars, leaseVars, codecVars, registry, offsets, qfail,
                   marks, futures, nstart,
                   inflight, ndone, wms>>

\* ------------------------------------------------------------------ specifications
\* The replica under observation; the other replicas act on it only through
\* the messages they write to the topic.
Local == {1}

\* Replication: the local replica aliases its aggregate, inserts and runs its
\* reader, while other replicas write to the topic.
Next ==
    \/ RemoteWrite
    \/ \E r \in Local :
        \/ Alias(r)
        \/ InsertWrite(r)
        \/ InsertSync(r)
        \/ Deliver(r)
        \/ DeliveryFails(r)
        \/ ReaderNew(r)
        \/ LoadStateStart(r)
        \/ \E p \in Partitions : ReadMessage(r, p) \/ ReadEof(r, p)
        \/ Dispatch(r)
        \/ LoadStateReturn(r)

Spec == Init /\ [][Next]_vars

\* Bootstrap: one reader against a topic that holds any messages, valid or
\* not, or that is missing, or whose metadata cannot be fetched.
BootMessages ==
    {UpdateMessage("metrics", k, v) : k \in Keys, v \in Values}
      \cup {UpdateMessage("topics", 1, 1),
            UpdateMessage("unknown", 1, 1),
            Message(Some(EncodeWrapped(WrappedKey("metrics", 1))), None),
            Message(Some(EncodeWrapped(WrappedKey("metrics", 1))), Some(<<255>>)),
            Message(Some(EncodeWrapped([name |-> "metrics", key |-> <<255>>])), Some(Ser(1))),
            Message(Some(<<255>>), Some(Ser(1))),
            Message(None, Some(Ser(1)))}

BootLogs == UNION {[1..n -> BootMessages] : n \in 0..MaxLog}

\* The partition a message of the topic was written to (a message without a
\* key may be on any partition; the model puts it on the first).
MessagePartition(m) == IF m.key.some THEN PartitionOf(m.key.bytes) ELSE 1

RECURSIVE Filter(_, _)
Filter(seq, p) ==
    IF seq = <<>> THEN <<>>
    ELSE IF MessagePartition(Head(seq)) = p
         THEN <<Head(seq)>> \o Filter(Tail(seq), p)
         ELSE Filter(Tail(seq), p)

InitBoot ==
    /\ \E seq \in BootLogs : log = [p \in Partitions |-> Filter(seq, p)]
    /\ meta \in {"found", "missing", "error"}
    /\ InitProcess
    /\ InitLock
    /\ InitNoRequest
    /\ InitNoWorkers
    /\ InitNoCodec

NextBoot ==
    \E r \in Local :
        \/ ReaderNew(r)
        \/ LoadStateStart(r)
        \/ \E p \in Partitions : ReadMessage(r, p) \/ ReadEof(r, p)
        \/ StreamError(r)
        \/ Dispatch(r)
        \/ LoadStateReturn(r)

SpecBoot == InitBoot /\ [][NextBoot]_vars

\* Consumer group: every replica inserts and runs its reader.
NextGroup ==
    \E r \in Replicas :
        \/ InsertWrite(r)
        \/ InsertSync(r)
        \/ Deliver(r)
        \/ DeliveryFails(r)
        \/ ReaderNew(r)
        \/ LoadStateStart(r)
        \/ \E p \in Partitions : ReadMessage(r, p) \/ ReadEof(r, p)
        \/ Dispatch(r)
        \/ LoadStateReturn(r)

SpecGroup == Init /\ [][NextGroup]_vars

\* Receiver: updates handed straight to the aggregate of the local replica.
NextRecv == \E r \in Local : ReceiveUpdate(r)

SpecRecv == Init /\ [][NextRecv]_vars


\* Key encoding: the local replica inserts keys that serialize and keys that
\* do not.
NextEnc ==
    \E r \in Local :
        \/ Alias(r)
        \/ InsertUnwrapPanics(r)
        \/ InsertWrite(r)
        \/ InsertSync(r)
        \/ Deliver(r)
        \/ DeliveryFails(r)

SpecEnc == Init /\ [][NextEnc]_vars

\* Lock: threads call get and sync_value_update on one map.
NextLock ==
    \E t \in Threads :
        \/ GetCall(t)
        \/ GetLock(t)
        \/ GetClone(t)
        \/ GetReturn(t)
        \/ SyncCall(t)
        \/ SyncLock(t)
        \/ SyncInsert(t)
        \/ SyncUnlock(t)

SpecLock == Init /\ [][NextLock]_vars

\* Fanout: one group_offsets request, for any offsets of the group, with or
\* without a consumer registered for the cluster.
InitFanout ==
    /\ log = [p \in Partitions |-> <<>>]
    /\ meta = "found"
    /\ InitProcess
    /\ InitLock
    /\ registry \in BOOLEAN
    /\ offsets \in OffsetsInputs
    /\ qfail \in SUBSET FailCandidates
    /\ fpc = "call"
    /\ futures = <<>>
    /\ nstart = 0
    /\ inflight = 0
    /\ ndone = 0
    /\ wms = [ok |-> FALSE, map |-> EmptyMap]
    /\ response = [status |-> 0, body |-> ""]
    /\ marks = EmptyMap
    /\ rows = <<>>
    /\ InitNoWorkers
    /\ InitNoCodec

NextFanout ==
    \/ FetchWatermarksCall
    \/ Spawn
    \/ StartQuery
    \/ SettleQuery
    \/ JoinAll
    \/ GroupOffsetsRespond

SpecFanout == InitFanout /\ [][NextFanout]_vars

\* Lag rows: one group_offsets request for a group with offsets on one topic,
\* any watermarks and any failing queries, with a consumer registered.
OffsetValues == {-1, 0, 1, 100, 200}

WatermarkValues == {<<0, 0>>, <<0, 1>>, <<1, 2>>, <<10, 150>>}

RowPairs == {<<1, i - 1>> : i \in 1..MaxParts}

RowsInputs ==
    {<< <<1, ps>> >> : ps \in UNION {[1..n -> OffsetValues] : n \in 0..MaxParts}}

InitRows ==
    /\ log = [p \in Partitions |-> <<>>]
    /\ meta = "found"
    /\ InitProcess
    /\ InitLock
    /\ InitNoWorkers
    /\ InitNoCodec
    /\ registry = TRUE
    /\ offsets \in RowsInputs
    /\ qfail \in SUBSET RowPairs
    /\ marks \in [RowPairs -> WatermarkValues]
    /\ fpc = "call"
    /\ futures = <<>>
    /\ nstart = 0
    /\ inflight = 0
    /\ ndone = 0
    /\ wms = [ok |-> FALSE, map |-> EmptyMap]
    /\ response = [status |-> 0, body |-> ""]
    /\ rows = <<>>

SpecRows == InitRows /\ [][NextFanout]_vars

\* Workers: the threads of one process call insert, receive updates and read
\* the groups and offsets maps in any interleaving.
InitWorkers ==
    /\ log = [p \in Partitions |-> <<>>]
    /\ meta = "found"
    /\ InitProcess
    /\ InitLock
    /\ InitNoRequest
    /\ InitNoWorkers
    /\ InitNoCodec

NextInserts ==
    \E t \in Workers :
        \/ WorkerInsertCall(t)
        \/ WorkerPublish(t)
        \/ WorkerWriteLock(t)
        \/ WorkerAssign(t)

SpecInserts == InitWorkers /\ [][NextInserts]_vars

NextWorkers ==
    \E t \in Workers :
        \/ WorkerInsertCall(t)
        \/ WorkerPublish(t)
        \/ WorkerReceiveCall(t)
        \/ WorkerWriteLock(t)
        \/ WorkerAssign(t)
        \/ WorkerIterCall(t)
        \/ WorkerReadLock(t)
        \/ WorkerIterNext(t)
        \/ WorkerIterEnd(t)

SpecWorkers == InitWorkers /\ [][NextWorkers]_vars

\* Codec: any cache name and user key in each slot; each is encoded and the
\* physical key decoded again.
InitCodec ==
    /\ log = [p \in Partitions |-> <<>>]
    /\ meta = "found"
    /\ InitProcess
    /\ InitLock
    /\ InitNoRequest
    /\ InitNoWorkers
    /\ cin \in [Slots -> {<<AllNames[i], k>> : i \in 1..Len(AllNames), k \in Keys}]
    /\ cenc = EmptyMap
    /\ cdec = EmptyMap

NextCodec ==
    \E i \in Slots :
        \/ CodecEncode(i)
        \/ CodecDecode(i)

SpecCodec == InitCodec /\ [][NextCodec]_vars

\* The request thread and the pool's workers run and every query settles:
\* while some step of the fanout can be taken, one eventually is.
SpecFanoutFair == InitFanout /\ [][NextFanout]_vars /\ WF_vars(NextFanout)


\* ------------------------------------------------------------------ claims
\* get through handle h of replica r on the map of field f.
Get(r, h, f, k) == MapGet(heap[r], refs[r][h][f], k)

\* The step in which the insert of replica r returns Ok(()).
InsertReturnsOk(r) == tpc[r] = "written" /\ tpc'[r] = "idle" /\ ret'[r] = "Ok"

\* C1: write-through visibility.  When insert(k, v) returns success, get(k)
\* is Some(v) through every handle of the aggregate (the one used and every
\* alias), whatever the reader has or has not delivered; and it stays Some(v)
\* through every handle in every step that applies no update on the replica.
C1_WriteThroughVisibility ==
    [][\A r \in Replicas :
         /\ InsertReturnsOk(r) =>
              \A h \in DOMAIN refs'[r] :
                  MapGet(heap'[r], refs'[r][h][call[r].f], call[r].k)
                    = [some |-> TRUE, val |-> call[r].v]
         /\ (/\ ret[r] = "Ok" /\ tpc[r] = "idle" /\ tpc'[r] = "idle"
             /\ delivered'[r] = delivered[r]
             /\ \A h \in DOMAIN refs[r] :
                    Get(r, h, call[r].f, call[r].k) = [some |-> TRUE, val |-> call[r].v])
            => \A h \in DOMAIN refs'[r] :
                  MapGet(heap'[r], refs'[r][h][call[r].f], call[r].k)
                    = [some |-> TRUE, val |-> call[r].v]]_vars

\* An insert returned Ok, the aggregate has an alias, the reader has delivered
\* nothing, and the value is read through every handle.
C1_Witness ==
    \E r \in Local :
        /\ ret[r] = "Ok" /\ tpc[r] = "idle"
        /\ Cardinality(DOMAIN refs[r]) >= 2
        /\ delivered[r] = <<>>
        /\ \A h \in DOMAIN refs[r] :
               Get(r, h, call[r].f, call[r].k) = [some |-> TRUE, val |-> call[r].v]

\* C2: insert failure leaves the state unchanged.  A step in which a write
\* starts and no message is taken by a producer nor reaches the topic is a
\* failed write_update of an insert: the insert returns Err in that step and
\* no map of any replica changes.
C2_InsertFailureNoChange ==
    [][(nwrites' # nwrites /\ queue' = queue /\ log' = log) =>
         /\ heap' = heap
         /\ \E r \in Replicas :
                tpc[r] = "idle" /\ tpc'[r] = "idle" /\ ret'[r] = "Err"]_vars

\* An insert of a new value for a key that is present failed, and the key
\* still has its old value.
C2_Witness ==
    \E r \in Replicas :
        /\ ret[r] = "Err" /\ tpc[r] = "idle"
        /\ Get(r, call[r].h, call[r].f, call[r].k).some
        /\ Get(r, call[r].h, call[r].f, call[r].k).val # call[r].v


\* ---- what a log holds
\* The messages of partition p whose key parses to the wrapped key w.
IndexesOf(p, w) ==
    {i \in 1..Len(log[p]) :
        parse_message_key(log[p][i]).ok /\ parse_message_key(log[p][i]).w = w}

\* The wrapped keys of the log.
LogKeys ==
    UNION {{parse_message_key(log[p][i]).w :
               i \in {j \in 1..Len(log[p]) : parse_message_key(log[p][j]).ok}} :
           p \in Partitions}

MaxOf(S) == CHOOSE x \in S : \A y \in S : y <= x

\* The last message of the log with wrapped key w (w in LogKeys).
LastMessage(w) ==
    LET p == CHOOSE q \in Partitions : IndexesOf(q, w) # {}
    IN log[p][MaxOf(IndexesOf(p, w))]

\* A message that sets a value: its payload is present and decodes.
IsSet(m) == m.payload.some /\ De(m.payload.bytes).ok

\* The mapping the log gives the map named f: the keys whose last message
\* sets a value, with that value.
LastWrites(f) ==
    LET ws == {w \in LogKeys : w.name = f /\ De(w.key).ok /\ IsSet(LastMessage(w))}
    IN [k \in {De(w.key).val : w \in ws} |->
          De(LastMessage(CHOOSE w \in ws : De(w.key).val = k).payload.bytes).val]

\* Every message of the log sets a value of one of the five maps.
OnlyValidSets ==
    \A p \in Partitions : \A i \in 1..Len(log[p]) :
        /\ parse_message_key(log[p][i]).ok
        /\ parse_message_key(log[p][i]).w.name \in Fields
        /\ De(parse_message_key(log[p][i]).w.key).ok
        /\ IsSet(log[p][i])

\* The map of field f the reader of replica r applies its updates to.
ReceiverMap(r, f) == heap[r][refs[r][receiver[r]][f].map]

\* load_state of replica r has returned after streaming the topic.
Bootstrapped(r) == rpc[r] = "done" /\ meta = "found"

\* C3: bootstrap equals last write per key.  After load_state on a topic
\* found in the metadata, the receiver was handed exactly one update for each
\* distinct wrapped key of the log, built from the last message of that key,
\* and nothing else; when the log holds only valid Set records, each map is
\* exactly the last value of each of its keys.
C3_BootstrapLastWritePerKey ==
    \A r \in Local :
        Bootstrapped(r) =>
            /\ Len(delivered[r]) = Cardinality(LogKeys)
            /\ \A w \in LogKeys :
                   \E i \in 1..Len(delivered[r]) :
                       delivered[r][i] = <<w.name, UpdateOf(w, LastMessage(w))>>
            /\ OnlyValidSets => \A f \in Fields : ReceiverMap(r, f) = LastWrites(f)

\* The spec's example: (k, v1), (k, v2), (k', w) gives {k: v2, k': w}.
C3_Witness ==
    \E r \in Local :
        /\ Bootstrapped(r)
        /\ OnlyValidSets
        /\ \E p \in Partitions :
               /\ Len(log[p]) = 2
               /\ log[p][1] = UpdateMessage("metrics", 1, 1)
               /\ log[p][2] = UpdateMessage("metrics", 1, 2)
        /\ \E p \in Partitions : log[p] = <<UpdateMessage("metrics", 2, 1)>>
        /\ ReceiverMap(r, "metrics") = [k \in {1, 2} |-> IF k = 1 THEN 2 ELSE 1]
        /\ Len(delivered[r]) = 2

\* C8: bootstrap completion.  When the topic is found in the metadata, the
\* reader leaves the stream loop (and load_state returns) only with every
\* partition in the EOF set, each having emitted its EOF marker at its end.
C8_BootstrapCompletion ==
    \A r \in Local :
        (meta = "found" /\ rpc[r] \in {"dispatch", "done"}) =>
            /\ eof_set[r] = Partitions
            /\ \A p \in Partitions : eofAt[r][p] /\ pos[r][p] = Len(log[p])

\* load_state returned after messages on both partitions and a stream error.
C8_Witness ==
    \E r \in Local :
        /\ Bootstrapped(r)
        /\ errors[r] > 0
        /\ \A p \in Partitions : Len(log[p]) > 0
        /\ \A p \in Partitions : \A i \in 1..Len(log[p]) : parse_message_key(log[p][i]).ok

\* A message the reader or the receiver turns down: no key, a key that does
\* not parse, or a name the aggregate does not know.
IsBad(m) == ~parse_message_key(m).ok \/ parse_message_key(m).w.name \notin Fields

\* C9: bad records are isolated.  Whatever bad messages the log holds, the
\* reader is never stuck or stopped before the end of the topic: while it
\* reads it has a next stream item, and once load_state has returned every
\* message was consumed, every kept update was handed over, and each map is
\* exactly the last value of each of its valid keys.
C9_BadRecordsIsolated ==
    \A r \in Local :
        /\ rpc[r] = "reading" =>
               \E p \in Partitions :
                   owner[p] = r /\ (pos[r][p] < Len(log[p]) \/ ~eofAt[r][p])
        /\ Bootstrapped(r) =>
               /\ \A p \in Partitions : pos[r][p] = Len(log[p])
               /\ DOMAIN state[r] = {}
               /\ \A f \in Fields : ReceiverMap(r, f) = LastWrites(f)

\* A message whose key does not parse sits between two valid messages of one
\* partition, the log also holds a message of an unknown cache; load_state
\* has returned and the valid key has its last value.
C9_Witness ==
    \E r \in Local :
        /\ Bootstrapped(r)
        /\ \E p \in Partitions :
               /\ Len(log[p]) = 3
               /\ ~IsBad(log[p][1]) /\ IsSet(log[p][1])
               /\ ~parse_message_key(log[p][2]).ok
               /\ log[p][3] = UpdateMessage("metrics", 1, 2)
        /\ ReceiverMap(r, "metrics") = [k \in {1} |-> 2]


\* ---- what the reader of a replica has received
\* The messages with wrapped key w that the reader of replica r has consumed.
ReceivedIndexes(r, p, w) == {i \in IndexesOf(p, w) : i <= pos[r][p]}

\* The partition the messages of wrapped key w are written to.
KeyPartition(w) == PartitionOf(EncodeWrapped(w))

\* The reader of replica r has received a message for key k of map f, and the
\* latest one carries value v.
LatestReceivedIs(r, f, k, v) ==
    LET w == WrappedKey(f, k)
        p == KeyPartition(w)
    IN /\ ReceivedIndexes(r, p, w) # {}
       /\ log[p][MaxOf(ReceivedIndexes(r, p, w))].payload = Some(Ser(v))

\* The map of field f as seen through handle h of replica r.
HandleMap(r, h, f) == heap[r][refs[r][h][f].map]

\* C4 as stated (I2): every key present in a map has the value of the latest
\* log record for it that the replica's reader has received.
C4_LatestReceivedOnly ==
    \A r \in Local : \A h \in DOMAIN refs[r] : \A f \in Fields :
        \A k \in DOMAIN HandleMap(r, h, f) :
            LatestReceivedIs(r, f, k, HandleMap(r, h, f)[k])

\* C4 as amended: every key present in a map has the value of the latest log
\* record for it that the replica's reader has received, or a value that an
\* insert of that key applied locally on the replica (write-through).
C4_LatestReceivedOrInserted ==
    \A r \in Local : \A h \in DOMAIN refs[r] : \A f \in Fields :
        \A k \in DOMAIN HandleMap(r, h, f) :
            \/ LatestReceivedIs(r, f, k, HandleMap(r, h, f)[k])
            \/ <<f, k, HandleMap(r, h, f)[k]>> \in inserted[r]

\* One key holds a value that only the log brought (no local insert applied
\* it), another a value that only a local insert applied (no message for it
\* was received).
C4_Witness ==
    \E r \in Local : \E f \in Fields : \E k1, k2 \in DOMAIN HandleMap(r, 1, f) :
        /\ <<f, k1, HandleMap(r, 1, f)[k1]>> \notin inserted[r]
        /\ LatestReceivedIs(r, f, k1, HandleMap(r, 1, f)[k1])
        /\ <<f, k2, HandleMap(r, 1, f)[k2]>> \in inserted[r]
        /\ ReceivedIndexes(r, KeyPartition(WrappedKey(f, k2)), WrappedKey(f, k2)) = {}

\* The messages of partition p with wrapped key w that carry value v.
ValueIndexes(p, w, v) == {i \in IndexesOf(p, w) : log[p][i].payload = Some(Ser(v))}

\* C5: no stale overwrite.  When the last insert of a replica has returned Ok
\* for (k, v) and its map now holds another value x for k, x was applied
\* afterwards by the reader; the claim is that the record of x does not
\* precede the record that insert produced.  Stated for the plain case: it
\* does not happen that the insert's record is in the log and every record of
\* the key carrying x precedes it.
C5_NoStaleOverwrite ==
    \A r \in Local :
        LET c == call[r]
            w == WrappedKey(c.f, c.k)
            p == KeyPartition(w)
        IN (/\ ret[r] = "Ok" /\ tpc[r] = "idle"
            /\ Get(r, c.h, c.f, c.k).some
            /\ Get(r, c.h, c.f, c.k).val # c.v)
           => ~ \E j \in ValueIndexes(p, w, c.v) :
                    /\ <<p, j>> \in own[r]
                    /\ \A i \in ValueIndexes(p, w, Get(r, c.h, c.f, c.k).val) : i < j

\* C6: live replication.  A reader whose load_state has returned consumes
\* nothing any more, so the claim needs that no message is ever in the log
\* unconsumed by a reader that has returned.
C6_LiveReplication ==
    \A r \in Local :
        Bootstrapped(r) => \A p \in Partitions : pos[r][p] = Len(log[p])

\* C7: full replication per replica.  A reader in its stream loop is assigned
\* every partition of the topic, and it is not left without a next stream
\* item before its EOF set is complete.
C7_FullReplication ==
    \A r \in Replicas :
        rpc[r] = "reading" =>
            /\ \A p \in Partitions : owner[p] = r
            /\ \E p \in Partitions :
                   owner[p] = r /\ (pos[r][p] < Len(log[p]) \/ ~eofAt[r][p])

\* The update is a Set whose key and payload decode.
IsValidSet(u) == u.kind = "Set" /\ De(u.key).ok /\ De(u.payload).ok

\* C10: dispatch by name.  A call of Cache::receive_update with one of the
\* five names changes at most the map of that name, and changes it into the
\* map with the update applied; with any other name it returns an error and
\* changes no map.
C10_DispatchByName ==
    [][\A r \in Local :
         Len(delivered'[r]) > Len(delivered[r]) =>
            LET n == delivered'[r][Len(delivered'[r])][1]
                u == delivered'[r][Len(delivered'[r])][2]
            IN IF n \in Fields
               THEN /\ \A c \in Cells : c[1] # n => heap'[r][c] = heap[r][c]
                    /\ \A c \in Cells : c[1] = n /\ c[2] = 1 =>
                          heap'[r][c] = IF IsValidSet(u)
                                        THEN MapInsert(heap[r][c], De(u.key).val,
                                                       De(u.payload).val)
                                        ELSE heap[r][c]
               ELSE lastRet'[r] = "Err" /\ heap'[r] = heap[r]]_vars

\* An update named "offsets" was applied and is in the offsets map alone; the
\* next call, with an unknown name, returned an error.
C10_Witness ==
    \E r \in Local :
        /\ Len(delivered[r]) = 2
        /\ delivered[r][1] = <<"offsets", Set(Ser(1), Ser(2))>>
        /\ delivered[r][2][1] = "unknown"
        /\ lastRet[r] = "Err"
        /\ \A f \in Fields :
               HandleMap(r, 1, f) = IF f = "offsets" THEN [k \in {1} |-> 2] ELSE EmptyMap

\* C11: restart round trip.  For the message write_update produces for
\* insert(k, v) on the map named n: when it is the last record of its key in
\* the log, a process that starts afterwards holds, once its load_state has
\* returned, exactly v for k in its map named n; and any other map holds k
\* only if the log has a record written for that map and that key.
C11_RestartRoundTrip ==
    \A r \in Local :
        Bootstrapped(r) =>
            \A n \in Fields : \A k \in Keys : \A v \in Values :
                LET w == WrappedKey(n, k)
                    p == KeyPartition(w)
                IN (/\ IndexesOf(p, w) # {}
                    /\ log[p][MaxOf(IndexesOf(p, w))] = UpdateMessage(n, k, v))
                   => /\ MapGet(heap[r], refs[r][receiver[r]][n], k)
                           = [some |-> TRUE, val |-> v]
                      /\ \A m \in Fields \ {n} :
                             k \in MapKeys(heap[r], refs[r][receiver[r]][m])
                               => WrappedKey(m, k) \in LogKeys

\* The log holds the records of insert(1, 2) on metrics and insert(1, 1) on
\* topics; after the bootstrap each of the two maps has its own value for key
\* 1 and the other three maps are empty.
C11_Witness ==
    \E r \in Local :
        /\ Bootstrapped(r)
        /\ \E p \in Partitions : \E i \in 1..Len(log[p]) :
               log[p][i] = UpdateMessage("metrics", 1, 2)
        /\ \E p \in Partitions : \E i \in 1..Len(log[p]) :
               log[p][i] = UpdateMessage("topics", 1, 1)
        /\ ReceiverMap(r, "metrics") = [k \in {1} |-> 2]
        /\ ReceiverMap(r, "topics") = [k \in {1} |-> 1]
        /\ \A f \in Fields \ {"metrics", "topics"} : ReceiverMap(r, f) = EmptyMap

\* A thread of the lock model has a step it can take.
CanStep(t) ==
    \/ lpc[t] = "idle" /\ nops < MaxOps
    \/ lpc[t] = "r_wait" /\ rw.writer = 0
    \/ lpc[t] = "w_wait" /\ rw.writer = 0 /\ rw.readers = {}
    \/ lpc[t] \in {"r_get", "r_clone", "w_insert", "w_rest"}

\* C12: concurrent readers.  Whatever the interleaving of threads that call
\* get and threads that store values in the same map, a get that has returned
\* gave None or both words of one value that was stored (never one word of
\* one value and one of another), and no state is a deadlock: while a call is
\* unfinished, some thread can take a step.
C12_ConcurrentReaders ==
    /\ \A t \in Threads :
           (lpc[t] = "idle" /\ got[t].some) =>
               got[t].a = got[t].b /\ got[t].a \in Values
    /\ (\E t \in Threads : lpc[t] # "idle") => \E t \in Threads : CanStep(t)

\* A get waits for the lock while a writer holds it half-way through storing
\* a second value over the first, and another get has returned the first
\* value whole.
C12_Witness ==
    \E t1, t2, t3 \in Threads :
        /\ lpc[t1] = "r_wait"
        /\ lpc[t2] = "w_rest" /\ slot.a # slot.b /\ slot.b \in Values
        /\ lpc[t3] = "idle" /\ got[t3].some /\ got[t3].a = slot.b

\* C13: alias shares state.  A step that creates a handle changes no mapping
\* and no existing handle; and after every step, all handles of a replica
\* carry the names of the original's maps and give the same keys() and the
\* same get(k) for every map and key, whether the last update came from an
\* insert through some handle or from the reader through its handle.
C13_AliasSharesState ==
    [][\A r \in Local :
         /\ (DOMAIN refs'[r] # DOMAIN refs[r]) =>
                /\ heap'[r] = heap[r]
                /\ \A h \in DOMAIN refs[r] : refs'[r][h] = refs[r][h]
         /\ \A h1, h2 \in DOMAIN refs'[r] : \A f \in Fields :
                /\ refs'[r][h1][f].name = f
                /\ MapKeys(heap'[r], refs'[r][h1][f]) = MapKeys(heap'[r], refs'[r][h2][f])
                /\ \A k \in Keys :
                       MapGet(heap'[r], refs'[r][h1][f], k)
                         = MapGet(heap'[r], refs'[r][h2][f], k)]_vars

\* The reader applied an update through the first handle, an insert of
\* another key returned Ok through the alias, and both handles hold both keys.
C13_Witness ==
    \E r \in Local :
        /\ DOMAIN refs[r] = {1, 2}
        /\ receiver[r] = 1 /\ Len(delivered[r]) > 0
        /\ call[r].h = 2 /\ ret[r] = "Ok" /\ tpc[r] = "idle"
        /\ MapKeys(heap[r], refs[r][1]["metrics"]) = {1, 2}
        /\ MapKeys(heap[r], refs[r][2]["metrics"]) = {1, 2}
        /\ \E k \in {1, 2} : \A v \in Values : <<"metrics", k, v>> \notin inserted[r]

\* C14: Delete is rejected.  When a Delete update reaches the map of a known
\* name, ReplicatedMap::receive_update returns an error and no mapping
\* changes: a key that was present keeps its value.
C14_DeleteRejected ==
    [][\A r \in Local :
         Len(delivered'[r]) > Len(delivered[r]) =>
            LET n == delivered'[r][Len(delivered'[r])][1]
                u == delivered'[r][Len(delivered'[r])][2]
            IN (n \in Fields /\ u.kind = "Delete") =>
                  /\ MapReceiveUpdate(heap[r], refs[r][receiver'[r]][n], u).ret = "Err"
                  /\ MapReceiveUpdate(heap[r], refs[r][receiver'[r]][n], u).heap = heap[r]
                  /\ heap'[r] = heap[r]]_vars

\* Key 1 of metrics was set to 1, then a Delete of key 1 was handed to
\* metrics, and the key still has value 1.
C14_Witness ==
    \E r \in Local :
        /\ Len(delivered[r]) = 2
        /\ delivered[r][1] = <<"metrics", Set(Ser(1), Ser(1))>>
        /\ delivered[r][2] = <<"metrics", Delete(Ser(1))>>
        /\ HandleMap(r, 1, "metrics") = [k \in {1} |-> 1]

\* C15: key-encoding failure is an error value.  After an insert whose key
\* failed to encode, the insert has returned Err to its caller (the thread
\* has not unwound), no record was sent and the local map is unchanged.
C15_KeyEncodingErrorValue ==
    [][\A r \in Local :
         (nwrites' # nwrites /\ call'[r].k = BadKey) =>
             /\ tpc'[r] = "idle" /\ ret'[r] = "Err"
             /\ queue' = queue /\ log' = log /\ heap' = heap]_vars

\* C16: missing topic.  When the topic is not in the fetched metadata, the
\* reader never enters the stream loop: it consumes no message, records no
\* EOF, keeps no message, hands nothing to the receiver, and every map of
\* the aggregate stays empty, up to and after the return of load_state.
C16_MissingTopic ==
    \A r \in Local :
        meta = "missing" =>
            /\ rpc[r] # "reading"
            /\ \A p \in Partitions : pos[r][p] = 0
            /\ eof_set[r] = {}
            /\ state[r] = EmptyMap
            /\ delivered[r] = <<>>
            /\ \A c \in Cells : heap[r][c] = EmptyMap

\* load_state has returned for a topic that is not in the metadata although
\* the brokers hold valid records of it.
C16_Witness ==
    \E r \in Local :
        /\ meta = "missing"
        /\ rpc[r] = "done"
        /\ \E p \in Partitions : Len(log[p]) > 0 /\ ~IsBad(log[p][1]) /\ IsSet(log[p][1])

\* The (topic, p) pairs of the request: p in 0..len(partition_offsets) of
\* every entry.
RequestPairs ==
    UNION {{<<offsets[i][1], q>> : q \in 0..(Len(offsets[i][2]) - 1)} :
           i \in 1..Len(offsets)}

\* C17: fanout completeness.  With a consumer registered, fetch_watermarks
\* returns Ok, and only once every task was submitted and has completed; the
\* returned mapping has an entry for exactly the (topic, p) pairs of the
\* request, and the entry of a pair is an Err exactly when its own query
\* failed, the other entries and the operation being unaffected.
C17_FanoutCompleteness ==
    /\ (registry /\ fpc \in {"returned", "responded"}) => wms.ok
    /\ (fpc \in {"returned", "responded"} /\ wms.ok) =>
          /\ Len(futures) = Len(AllPairs(offsets))
          /\ ndone = Len(futures) /\ inflight = 0
          /\ DOMAIN wms.map = RequestPairs
          /\ \A pair \in RequestPairs : wms.map[pair].ok <=> pair \notin qfail

\* The fanout returned for two topics with more pairs than the pool has
\* workers; one query failed and its entry is the only Err.
C17_Witness ==
    /\ fpc = "returned" /\ wms.ok
    /\ Len(offsets) = 2
    /\ Cardinality(DOMAIN wms.map) > PoolSize
    /\ Cardinality({pair \in DOMAIN wms.map : ~wms.map[pair].ok}) = 1

\* C18: bounded parallelism.  At no time are more than 32 watermark queries
\* in flight.
C18_BoundedParallelism == inflight <= 32

\* 32 queries are in flight while a submitted task waits for a worker.
C18_Witness == inflight = 32 /\ nstart < Len(futures)

\* C19: fanout termination.  With every query settling and the threads
\* running, a call of fetch_watermarks returns, with the mapping or with the
\* error, whatever the number of pairs.
C19_FanoutTermination == (fpc = "call") ~> (fpc \in {"failed", "returned", "responded"})

\* fetch_watermarks has returned the mapping of more pairs than the pool has
\* workers.
C19_Witness == fpc = "returned" /\ wms.ok /\ Len(futures) > PoolSize /\ ndone = Len(futures)

\* C20: NoConsumer.  Without a consumer for the cluster in the registry,
\* fetch_watermarks fails with nothing submitted (no future, no query started
\* nor settled), and group_offsets answers 200 with the empty JSON object.
C20_NoConsumer ==
    ~registry =>
        /\ futures = <<>> /\ nstart = 0 /\ inflight = 0 /\ ndone = 0
        /\ fpc \in {"call", "failed", "responded"}
        /\ fpc # "call" => ~wms.ok
        /\ fpc = "responded" => response = [status |-> 200, body |-> "{}"]

\* The request had pairs to query, no consumer was registered, and the
\* handler has answered.
C20_Witness ==
    /\ ~registry
    /\ fpc = "responded"
    /\ RequestPairs # {}
    /\ response.status = 200

\* The row the rules give for partition p of a topic with committed offset
\* off: the watermarks and the lag text of a query that succeeded, -1 and
\* "-1" for one that failed.
RuleRow(topic, p, off) ==
    LET pair == <<topic, p>> IN
    IF pair \in qfail
    THEN <<topic, p, -1, -1, off, "-1">>
    ELSE <<topic, p, marks[pair][1], marks[pair][2], off,
           IF marks[pair][2] = 0 THEN "Empty topic"
           ELSE IF off - marks[pair][1] < 0 THEN "Out of retention"
           ELSE ToString(marks[pair][2] - off)>>

\* The rows the rules give for the one entry of the request.
RuleRows ==
    IF offsets = <<>> THEN <<>>
    ELSE [i \in 1..Len(offsets[1][2]) |-> RuleRow(offsets[1][1], i - 1, offsets[1][2][i])]

\* The request of the example: offsets [100, 200] on one topic, partition 0
\* with watermarks (10, 150), the query of partition 1 failing.
ExampleRequest ==
    /\ offsets = << <<1, <<100, 200>>>> >>
    /\ marks[<<1, 0>>] = <<10, 150>>
    /\ qfail = {<<1, 1>>}

\* group_offsets has answered with rows.
Answered == fpc = "responded" /\ wms.ok

\* C21 as stated: the rows follow the rules, and the example's request is
\* answered with the rows (t1, 0, 10, 150, 100, "50") and
\* (t1, 1, -1, -1, 100, "-1").
C21_LagRowsAsStated ==
    Answered =>
        /\ rows = RuleRows
        /\ ExampleRequest =>
              rows = << <<1, 0, 10, 150, 100, "50">>, <<1, 1, -1, -1, 100, "-1">> >>

\* C21: lag rows.  For each partition p of each offsets entry group_offsets
\* emits one row (topic, p, low, high, offset, lag) whose offset is the
\* committed offset of partition p; with watermarks (low, high) the lag is
\* "Empty topic" when high = 0, else "Out of retention" when offset - low < 0,
\* else the decimal of high - offset; with a failed query low = high = -1 and
\* the lag is "-1".  The example's request is answered with
\* (t1, 0, 10, 150, 100, "50") and (t1, 1, -1, -1, 200, "-1").
C21_LagRows ==
    Answered =>
        /\ rows = RuleRows
        /\ ExampleRequest =>
              rows = << <<1, 0, 10, 150, 100, "50">>, <<1, 1, -1, -1, 200, "-1">> >>

\* The example's request has been answered, with two rows.
C21_Witness == Answered /\ ExampleRequest /\ Len(rows) = 2

C23_ReceiverFailuresReachReader ==
    [][\A r \in Local :
         Len(delivered'[r]) > Len(delivered[r]) =>
            LET n == delivered'[r][Len(delivered'[r])][1]
                u == delivered'[r][Len(delivered'[r])][2]
            IN (n \in Fields
                  /\ MapReceiveUpdate(heap[r], refs[r][receiver'[r]][n], u).ret = "Err") =>
                  /\ lastRet'[r] = "Err"
                  /\ errors'[r] = errors[r] + 1]_vars

\* The wrapped key is of one of the five maps, its user key decodes, and the
\* last record of the key in the log is a tombstone.
EndsWithTombstone(w) ==
    w.name \in Fields /\ De(w.key).ok /\ ~LastMessage(w).payload.some

\* C25: tombstone at bootstrap.  After load_state on an initially empty
\* aggregate, a key whose last record in the log is a tombstone is absent
\* from its map, whatever earlier records set for it; and every update the
\* reader hands over is built from the last record of its key, never from an
\* earlier one.
C25_TombstoneAtBootstrap ==
    \A r \in Local :
        /\ Bootstrapped(r) =>
              \A w \in LogKeys :
                  EndsWithTombstone(w) => De(w.key).val \notin DOMAIN ReceiverMap(r, w.name)
        /\ meta = "found" =>
              \A i \in 1..Len(delivered[r]) :
                  \E w \in LogKeys :
                      delivered[r][i] = <<w.name, UpdateOf(w, LastMessage(w))>>

\* The log sets key 1 of metrics and then holds its tombstone; load_state has
\* returned, the Delete was handed over, and metrics is empty.
C25_Witness ==
    \E r \in Local :
        /\ Bootstrapped(r)
        /\ \E p \in Partitions :
               /\ Len(log[p]) = 2
               /\ log[p][1] = UpdateMessage("metrics", 1, 2)
               /\ log[p][2] = Message(Some(EncodeWrapped(WrappedKey("metrics", 1))), None)
        /\ delivered[r] = << <<"metrics", Delete(Ser(1))>> >>
        /\ ReceiverMap(r, "metrics") = EmptyMap

\* The records handed to the producer for key k of map m, as indexes of pub.
Published(m, k) == {i \in 1..Len(pub) : pub[i][1] = m /\ pub[i][2] = k}

\* C24: concurrent local inserts follow log order.  When the threads of one
\* process have called insert on the same map with the same key and all the
\* calls have returned, the local map holds the value of the record that is
\* last in the log among them.
C24_ConcurrentInsertsFollowLogOrder ==
    (\A t \in Workers : tp[t] = "idle") =>
        \A m \in MapNames, k \in Keys :
            Published(m, k) # {} =>
                /\ k \in DOMAIN mp[m]
                /\ mp[m][k] = pub[MaxOf(Published(m, k))][3]

\* Worker t is inside the iteration of a call on map m.
Iterating(t, m) == tp[t] = "r_iter" /\ MapOf(t) = m

\* Worker t holds the read or the write lock of map m.
Holds(t, m) == t \in lease[m].readers \/ lease[m].writer = t

\* C26: atomic snapshots.  A call of keys, count, filter_clone or lock_iter
\* returns what its closure makes of the mapping the map holds at that
\* moment, which is the mapping it held during the whole iteration: no insert
\* or receive_update changes a map while a call iterates over it, and the
\* call itself changes no map.
C26_AtomicSnapshots ==
    [][/\ \A m \in MapNames :
            mp'[m] # mp[m] => \A t \in Workers : ~Iterating(t, m)
       /\ \A t \in Workers :
            (tp[t] = "r_iter" /\ tp'[t] # "r_iter") =>
                /\ tc[t].seen = mp[MapOf(t)]
                /\ tc'[t].result = IterResult(t, mp[MapOf(t)]).result
                /\ tc'[t].n = IterResult(t, mp[MapOf(t)]).n
                /\ mp' = mp]_vars

\* A filter_clone on the offsets map has returned the one matching entry
\* while the other thread, which called insert of another value for that key
\* during the iteration, still waits for the write lock or has just got it.
C26_Witness ==
    \E t, u \in Workers :
        /\ tp[t] = "idle" /\ tc[t].kind = "filter_clone"
        /\ tc[t].result = {<<1, 1>>}
        /\ mp["offsets"] = [k \in {1} |-> 1]
        /\ tp[u] \in {"w_wait", "w_locked"} /\ tc[u].kind = "insert"
        /\ tc[u].maps = <<"offsets">> /\ tc[u].k = 1 /\ tc[u].v = 2

\* A worker has a step it can take.
WorkerCanStep(t) ==
    \/ tp[t] = "idle" /\ ncalls < MaxWork
    \/ tp[t] \in {"publish", "w_locked", "r_iter"}
    \/ tp[t] = "r_wait" /\ lease[MapOf(t)].writer = 0
    \/ tp[t] = "w_wait" /\ lease[MapOf(t)].writer = 0 /\ lease[MapOf(t)].readers = {}

\* C27: no waiting while holding a lease.  A thread that waits for the
\* producer (inside write_update) or for the lock of a map holds no lock of
\* any map; the write lock is held only for the assignment; a thread that
\* waits for a read lock is kept waiting only by a thread that is doing its
\* assignment, never by one that publishes; and while a call is unfinished
\* some thread can take a step.
C27_NoWaitingWhileHolding ==
    /\ \A t \in Workers :
        /\ tp[t] \in {"idle", "publish", "w_wait", "r_wait"} =>
              \A m \in MapNames : ~Holds(t, m)
        /\ \A m \in MapNames :
              lease[m].writer = t => tp[t] = "w_locked" /\ MapOf(t) = m
        /\ \A m \in MapNames :
              t \in lease[m].readers => tp[t] = "r_iter" /\ MapOf(t) = m
    /\ (\E t \in Workers : tp[t] # "idle") => \E t \in Workers : WorkerCanStep(t)

\* build_group_list has read the groups map and waits for the read lock of
\* the offsets map, which the other thread holds for writing; the groups map
\* is free.
C27_Witness ==
    \E t, u \in Workers :
        /\ tc[t].kind = "build_group_list" /\ tp[t] = "r_wait"
        /\ tc[t].maps = <<"offsets">>
        /\ lease["offsets"].writer = u
        /\ lease["groups"] = [readers |-> {}, writer |-> 0]

====
